---- MODULE Spec2Model ----
(***************************************************************************)
(* A model of the helper routines of www/archive/models.py: the time       *)
(* difference formatter, the tombstone factories, the UserActivity upsert  *)
(* counters, the GroupStatisticsUpdateList refresh gate and the month      *)
(* window retention sweep (check, MonthPost.create, MonthComment.create).  *)
(*                                                                         *)
(* Tables are bags of rows (a row is a record of its columns), so that a   *)
(* duplicated row is a state the model can express.  Time is in whole      *)
(* seconds.  A handler runs at one instant: timezone.now() gives the same  *)
(* value at each of its calls inside one handler.                          *)
(***************************************************************************)
EXTENDS Integers, Sequences, FiniteSets, Bags, TLC

VARIABLES now, gates, monthPost, monthComment, lastUpdate, lastSweep,
          activity, last, gdt, tomb, calls, hist

vars == <<now, gates, monthPost, monthComment, lastUpdate, lastSweep,
          activity, last, gdt, tomb, calls, hist>>

(***************************************************************************)
(* Bounds of the model.                                                    *)
(***************************************************************************)
\* the clock advances in steps of Step seconds, up to MaxDays days
Step == 43200
MaxDays == 3
\* a UserActivity counter is not incremented beyond MaxCount
MaxCount == 2

(***************************************************************************)
(* Program constants.                                                      *)
(***************************************************************************)
\* seconds of one day: the unit of timedelta.days and of timedelta(30)
Day == 86400
\* timezone.timedelta(30): the retention window in days
RetentionDays == 30
SecsPerHour == 3600
SecsPerMin == 60

None == "None"

Groups == {"g1", "g2"}
Methods == {"month_content", "year"}
MonthMethod == "month_content"

MaxTime == MaxDays * Day

(***************************************************************************)
(* Bags of rows.                                                           *)
(***************************************************************************)
One(r) == SetToBag({r})
Rows(table) == BagToSet(table)

\* timedelta.days of a difference of d seconds (floor: -1 second is -1 day)
days(d) == d \div Day

(***************************************************************************)
(* GroupStatisticsUpdateList: rows [group, method, updated_time].          *)
(***************************************************************************)
GateFilter(gs, group, method) ==
    {r \in Rows(gs) : r.group = group /\ r.method = method}

\* is_update with the comparison of days slipped to >= 0
is_update_always(self, t) ==
    LET diff == t - self.updated_time
    IN  IF days(diff) >= 0 THEN TRUE ELSE FALSE

\* is_update of row self at time t
is_update(self, t) ==
    LET diff == t - self.updated_time
    IN  IF days(diff) >= 1 THEN TRUE ELSE FALSE

\* update whose assignment to oj[0].updated_time is lost (oj[0] fetched anew
\* for the save): an existing row keeps its timestamp
update_stale(gs, group, method, t) ==
    LET oj == GateFilter(gs, group, method)
    IN  IF oj # {}
        THEN {gs}
        ELSE {gs (+) One([group |-> group, method |-> method, updated_time |-> t])}

\* update without its test of oj: a row is created at every call
update_blind(gs, group, method, t) ==
    {gs (+) One([group |-> group, method |-> method, updated_time |-> t])}

\* update(group, method) at time t: the set of tables it may leave (the
\* query has no ORDER BY, so oj[0] is any of the matching rows; `if oj`
\* has filled the queryset's cache, so both oj[0] are that one row).
update(gs, group, method, t) ==
    LET oj == GateFilter(gs, group, method)
    IN  IF oj # {}
        THEN {(gs (-) One(r)) (+) One([r EXCEPT !.updated_time = t]) : r \in oj}
        ELSE {gs (+) One([group |-> group, method |-> method, updated_time |-> t])}

(***************************************************************************)
(* MonthPost: rows [created_time, group, post]; MonthComment: rows         *)
(* [created_time, group, comment].  post and comment hold the primary key  *)
(* of the Post or Comment.                                                 *)
(***************************************************************************)
\* the filter without its group=group condition
OlderThan_anygroup(table, group, date) ==
    {r \in Rows(table) : r.created_time < date}

\* objects.filter(group=group, created_time__lt=date)
OlderThan(table, group, date) ==
    {r \in Rows(table) : r.group = group /\ r.created_time < date}

\* the table without the rows of S (each oj.delete())
DeleteAll(table, S) ==
    LET keep == Rows(table) \ S
    IN  [r \in keep |-> table[r]]

Copies(table, S) ==
    LET RECURSIVE Sum(_)
        Sum(T) == IF T = {} THEN 0
                  ELSE LET r == CHOOSE x \in T : TRUE
                       IN  CopiesIn(r, table) + Sum(T \ {r})
    IN  Sum(S)

\* check(group) at time t on store st = [gates, monthPost, monthComment]:
\* the set of outcomes, each the store it leaves with what the call did
\* (due: the deletion branch ran; touched: update was called; deleted: the
\* number of rows removed).
check(st, group, t) ==
    LET update_list == GateFilter(st.gates, group, MonthMethod)
        Due(g2) ==
            LET date == t - RetentionDays * Day
                dp == OlderThan(st.monthPost, group, date)
                dc == OlderThan(st.monthComment, group, date)
            IN  [gates |-> g2,
                 monthPost |-> DeleteAll(st.monthPost, dp),
                 monthComment |-> DeleteAll(st.monthComment, dc),
                 due |-> TRUE, touched |-> TRUE,
                 deleted |-> Copies(st.monthPost, dp) + Copies(st.monthComment, dc)]
        NotDue(g2, touched) ==
            [gates |-> g2, monthPost |-> st.monthPost,
             monthComment |-> st.monthComment,
             due |-> FALSE, touched |-> touched, deleted |-> 0]
    IN  IF update_list # {}
        THEN UNION {IF is_update(r, t)
                    THEN {Due(g2) : g2 \in update(st.gates, group, MonthMethod, t)}
                    ELSE {NotDue(st.gates, FALSE)} : r \in update_list}
        ELSE {NotDue(g2, TRUE) : g2 \in update(st.gates, group, MonthMethod, t)}

\* create without its existence test
MonthPostExists_never(table, post) == FALSE

\* MonthPost.objects.filter(post=post).exists()
MonthPostExists(table, post) == \E r \in Rows(table) : r.post = post.id

\* MonthPost.create(post) at time t
MonthPost_create(st, post, t) ==
    {IF MonthPostExists(o.monthPost, post)
     THEN o
     ELSE [o EXCEPT !.monthPost = @ (+) One([created_time |-> post.created_time,
                                             group |-> post.group,
                                             post |-> post.id])]
     : o \in check(st, post.group, t)}

\* MonthComment.objects.filter(comment=comment).exists()
MonthCommentExists(table, comment) == \E r \in Rows(table) : r.comment = comment.id

\* MonthComment.create(comment) at time t
MonthComment_create(st, comment, t) ==
    {IF MonthCommentExists(o.monthComment, comment)
     THEN o
     ELSE [o EXCEPT !.monthComment = @ (+) One([created_time |-> comment.created_time,
                                                group |-> comment.group,
                                                comment |-> comment.id])]
     : o \in check(st, comment.group, t)}

(***************************************************************************)
(* The posts and comments handed to MonthPost.create and                   *)
(* MonthComment.create: their created_time lies around the retention       *)
(* cutoffs now - 30 days that the clock of the model passes through.       *)
(***************************************************************************)
MonthPosts ==
    { [id |-> "p1", group |-> "g1", created_time |-> Day - RetentionDays * Day],
      [id |-> "p2", group |-> "g1", created_time |-> 0],
      [id |-> "p3", group |-> "g2", created_time |-> (0 - RetentionDays * Day) - 1] }

MonthComments ==
    { [id |-> "c1", group |-> "g1", created_time |-> 2 * Day - RetentionDays * Day],
      [id |-> "c2", group |-> "g2", created_time |-> Day - RetentionDays * Day] }

Store == [gates |-> gates, monthPost |-> monthPost, monthComment |-> monthComment]

\* gdt and tomb before any call of the formatter and of the factories
NoResult == [time |-> 0, now |-> 0, result |-> None]
NoTomb == [of |-> "none", from |-> None, made |-> None]

\* the history variable last: the latest call, its arguments and what it did
\*   due, touched, deleted: as in the outcomes of check
\*   pre: rows of the call's key before the call (create, update), or the
\*        counter's value before the call (UserActivity helpers)
\*   prevSweep: the time of the group's previous sweep, when this call swept
\*        (a set: empty, or that one time)
\*   afterAdd, pre0: the call is a sub_*_count that directly follows the
\*        add_*_count of the same counter and key, and the counter's value
\*        before that add
NoCall == [op |-> "none", arg |-> None, group |-> None, due |-> FALSE,
           touched |-> FALSE, deleted |-> 0, pre |-> 0, prevSweep |-> {},
           afterAdd |-> FALSE, pre0 |-> 0]

\* the requests that run a UserActivity helper at the same time, and the
\* keys they call it for
Procs == {1, 2}
ConcKeys == {<<"u1", "g1">>, <<"u1", "g2">>}
HelperOps == {"add_post_count", "add_comment_count", "sub_post_count",
              "sub_comment_count"}

\* a request's position in its helper and the local user_activity it holds
\*   pc: "idle", "exists" (before the .exists() query), "insert" (before the
\*       save of a new row), "fetch" (before filter(...)[0]), "save"
\*       (before the save of the fetched row)
\*   n:  the calls the request has made
NoInst == [pk |-> 0, user |-> None, group |-> None,
           post_count |-> 0, comment_count |-> 0]
Idle == [pc |-> "idle", op |-> None, user |-> None, group |-> None,
         inst |-> NoInst, n |-> 0]

\* the history of the concurrent calls
\*   serial: the table the completed calls leave when run one after the
\*           other in the order they completed
\*   adds, others: for each key, the completed add_post_count calls and the
\*           completed calls of the other helpers
\*   overlap: for each key, whether a call was started while another call
\*           of the key was running
NoHist == [serial |-> EmptyBag,
           adds |-> [k \in ConcKeys |-> 0],
           others |-> [k \in ConcKeys |-> 0],
           overlap |-> [k \in ConcKeys |-> FALSE]]

(***************************************************************************)
(* Initial state: empty tables, the clock at 0.                            *)
(***************************************************************************)
Init ==
    /\ now = 0
    /\ gates = EmptyBag
    /\ monthPost = EmptyBag
    /\ monthComment = EmptyBag
    /\ lastUpdate = [k \in Groups \X Methods |-> {}]
    /\ lastSweep = [g \in Groups |-> {}]
    /\ activity = EmptyBag
    /\ last = NoCall
    /\ gdt = NoResult
    /\ tomb = NoTomb
    /\ calls = [p \in Procs |-> Idle]
    /\ hist = NoHist

\* what a call of check (alone or inside a create) leaves in the store and
\* in the history variables lastUpdate, lastSweep and last (lastUpdate[k]
\* and lastSweep[g] hold the time of the latest update of gate k and of the
\* latest sweep of group g: a set, empty before the first)
Leave(o, op, arg, group, pre) ==
    /\ gates' = o.gates
    /\ monthPost' = o.monthPost
    /\ monthComment' = o.monthComment
    /\ lastUpdate' = IF o.touched
                     THEN [lastUpdate EXCEPT ![<<group, MonthMethod>>] = {now}]
                     ELSE lastUpdate
    /\ lastSweep' = IF o.due THEN [lastSweep EXCEPT ![group] = {now}] ELSE lastSweep
    /\ last' = [NoCall EXCEPT !.op = op, !.arg = arg, !.group = group,
                              !.due = o.due, !.touched = o.touched,
                              !.deleted = o.deleted, !.pre = pre,
                              !.prevSweep = IF o.due THEN lastSweep[group] ELSE {}]
    /\ UNCHANGED <<now, activity, gdt, tomb, calls, hist>>

\* time passes
Tick ==
    /\ now + Step <= MaxTime
    /\ now' = now + Step
    /\ last' = [NoCall EXCEPT !.op = "tick"]
    /\ UNCHANGED <<gates, monthPost, monthComment, lastUpdate, lastSweep,
                   activity, gdt, tomb, calls, hist>>

Check(group) ==
    \E o \in check(Store, group, now) : Leave(o, "check", group, group, 0)

MonthPostCreate(post) ==
    \E o \in MonthPost_create(Store, post, now) :
        Leave(o, "MonthPost.create", post.id, post.group,
              Copies(monthPost, {r \in Rows(monthPost) : r.post = post.id}))

MonthCommentCreate(comment) ==
    \E o \in MonthComment_create(Store, comment, now) :
        Leave(o, "MonthComment.create", comment.id, comment.group,
              Copies(monthComment, {r \in Rows(monthComment) : r.comment = comment.id}))

Update(group, method) ==
    /\ \E g2 \in update(gates, group, method, now) : gates' = g2
    /\ lastUpdate' = [lastUpdate EXCEPT ![<<group, method>>] = {now}]
    /\ last' = [NoCall EXCEPT !.op = "update", !.arg = method, !.group = group,
                              !.touched = TRUE,
                              !.pre = Copies(gates, GateFilter(gates, group, method))]
    /\ UNCHANGED <<now, monthPost, monthComment, lastSweep, activity, gdt, tomb,
                   calls, hist>>

\* check and the creates under a passing clock, with the gate of the sweep
\* also touched from outside
NextMonth ==
    \/ Tick
    \/ \E g \in Groups : Check(g)
    \/ \E p \in MonthPosts : MonthPostCreate(p)
    \/ \E c \in MonthComments : MonthCommentCreate(c)
    \/ \E g \in Groups : Update(g, MonthMethod)

SpecMonth == Init /\ [][NextMonth]_vars

\* the refresh gate of every (group, method) under a passing clock
NextGate ==
    \/ Tick
    \/ \E g \in Groups, m \in Methods : Update(g, m)

SpecGate == Init /\ [][NextGate]_vars

(***************************************************************************)
(* UserActivity: rows [user, group, post_count, comment_count].            *)
(***************************************************************************)
ActKeys == {<<"u1", "g1">>, <<"u1", "g2">>, <<"u2", "g1">>}

\* UserActivity.objects.filter(user=user, group=group)
ActFilter(ua, user, group) ==
    {r \in Rows(ua) : r.user = user /\ r.group = group}

\* save() of row r changed to r2
Save(ua, r, r2) == (ua (-) One(r)) (+) One(r2)

\* the set of tables each helper may leave (the query has no ORDER BY, so
\* [0] is any of the matching rows)
add_post_count(ua, user, group) ==
    IF ActFilter(ua, user, group) = {}
    THEN {ua (+) One([user |-> user, group |-> group,
                      post_count |-> 1, comment_count |-> 0])}
    ELSE {Save(ua, r, [r EXCEPT !.post_count = @ + 1])
          : r \in ActFilter(ua, user, group)}

add_comment_count(ua, user, group) ==
    IF ActFilter(ua, user, group) = {}
    THEN {ua (+) One([user |-> user, group |-> group,
                      post_count |-> 0, comment_count |-> 1])}
    ELSE {Save(ua, r, [r EXCEPT !.comment_count = @ + 1])
          : r \in ActFilter(ua, user, group)}

\* sub_post_count with the decrement left unguarded
sub_post_count_nofloor(ua, user, group) ==
    IF ActFilter(ua, user, group) = {}
    THEN {ua (+) One([user |-> user, group |-> group,
                      post_count |-> 0, comment_count |-> 0])}
    ELSE {Save(ua, r, [r EXCEPT !.post_count = @ - 1])
          : r \in ActFilter(ua, user, group)}

sub_post_count(ua, user, group) ==
    IF ActFilter(ua, user, group) = {}
    THEN {ua (+) One([user |-> user, group |-> group,
                      post_count |-> 0, comment_count |-> 0])}
    ELSE {Save(ua, r, IF r.post_count > 0
                      THEN [r EXCEPT !.post_count = @ - 1]
                      ELSE [r EXCEPT !.post_count = 0])
          : r \in ActFilter(ua, user, group)}

\* sub_comment_count pasted from sub_post_count with post_count left in
sub_comment_count_pasted(ua, user, group) ==
    IF ActFilter(ua, user, group) = {}
    THEN {ua (+) One([user |-> user, group |-> group,
                      post_count |-> 0, comment_count |-> 0])}
    ELSE {Save(ua, r, IF r.post_count > 0
                      THEN [r EXCEPT !.post_count = @ - 1]
                      ELSE [r EXCEPT !.post_count = 0])
          : r \in ActFilter(ua, user, group)}

sub_comment_count(ua, user, group) ==
    IF ActFilter(ua, user, group) = {}
    THEN {ua (+) One([user |-> user, group |-> group,
                      post_count |-> 0, comment_count |-> 0])}
    ELSE {Save(ua, r, IF r.comment_count > 0
                      THEN [r EXCEPT !.comment_count = @ - 1]
                      ELSE [r EXCEPT !.comment_count = 0])
          : r \in ActFilter(ua, user, group)}

\* the counters of a key, a missing row counting as 0
PostCountOf(ua, user, group) ==
    IF ActFilter(ua, user, group) = {} THEN 0
    ELSE (CHOOSE r \in ActFilter(ua, user, group) : TRUE).post_count

CommentCountOf(ua, user, group) ==
    IF ActFilter(ua, user, group) = {} THEN 0
    ELSE (CHOOSE r \in ActFilter(ua, user, group) : TRUE).comment_count

ActFrame == UNCHANGED <<now, gates, monthPost, monthComment, lastUpdate,
                        lastSweep, gdt, tomb, calls, hist>>

Follows(op, user, group) ==
    last.op = op /\ last.arg = user /\ last.group = group

AddPostCount(user, group) ==
    /\ PostCountOf(activity, user, group) < MaxCount
    /\ \E ua \in add_post_count(activity, user, group) : activity' = ua
    /\ last' = [NoCall EXCEPT !.op = "add_post_count", !.arg = user, !.group = group,
                              !.pre = PostCountOf(activity, user, group)]
    /\ ActFrame

AddCommentCount(user, group) ==
    /\ CommentCountOf(activity, user, group) < MaxCount
    /\ \E ua \in add_comment_count(activity, user, group) : activity' = ua
    /\ last' = [NoCall EXCEPT !.op = "add_comment_count", !.arg = user,
                              !.group = group,
                              !.pre = CommentCountOf(activity, user, group)]
    /\ ActFrame

SubPostCount(user, group) ==
    /\ \E ua \in sub_post_count(activity, user, group) : activity' = ua
    /\ last' = [NoCall EXCEPT !.op = "sub_post_count", !.arg = user, !.group = group,
                              !.pre = PostCountOf(activity, user, group),
                              !.afterAdd = Follows("add_post_count", user, group),
                              !.pre0 = IF Follows("add_post_count", user, group)
                                       THEN last.pre ELSE 0]
    /\ ActFrame

SubCommentCount(user, group) ==
    /\ \E ua \in sub_comment_count(activity, user, group) : activity' = ua
    /\ last' = [NoCall EXCEPT !.op = "sub_comment_count", !.arg = user,
                              !.group = group,
                              !.pre = CommentCountOf(activity, user, group),
                              !.afterAdd = Follows("add_comment_count", user, group),
                              !.pre0 = IF Follows("add_comment_count", user, group)
                                       THEN last.pre ELSE 0]
    /\ ActFrame

\* the four helpers called one after the other, in any order
NextActivity ==
    \/ \E k \in ActKeys : AddPostCount(k[1], k[2])
    \/ \E k \in ActKeys : AddCommentCount(k[1], k[2])
    \/ \E k \in ActKeys : SubPostCount(k[1], k[2])
    \/ \E k \in ActKeys : SubCommentCount(k[1], k[2])

SpecActivity == Init /\ [][NextActivity]_vars

(***************************************************************************)
(* The upsert helpers of both tables called one after the other: the four  *)
(* UserActivity helpers, GroupStatisticsUpdateList.update and check, under *)
(* a clock that passes until a gate set at the start is due.               *)
(***************************************************************************)
UpsertKeys == {<<"u1", "g1">>, <<"u2", "g1">>}
UpsertGates == {<<"g1", "month_content">>, <<"g1", "year">>}

UpsertTick == now < Day /\ Tick

NextUpsert ==
    \/ UpsertTick
    \/ \E k \in UpsertKeys : AddPostCount(k[1], k[2])
    \/ \E k \in UpsertKeys : AddCommentCount(k[1], k[2])
    \/ \E k \in UpsertKeys : SubPostCount(k[1], k[2])
    \/ \E k \in UpsertKeys : SubCommentCount(k[1], k[2])
    \/ \E k \in UpsertGates : Update(k[1], k[2])
    \/ \E g \in Groups : Check(g)

SpecUpsert == Init /\ [][NextUpsert]_vars

(***************************************************************************)
(* The UserActivity helpers run by requests at the same time.  A helper    *)
(* is a sequence of queries with no transaction around them: the           *)
(* .exists() query, then either the INSERT of a new row, or the SELECT of  *)
(* filter(...)[0] and the UPDATE of that row by its primary key.  Rows     *)
(* carry their primary key here: [pk, user, group, post_count,             *)
(* comment_count].                                                         *)
(***************************************************************************)
\* the requests make at most MaxCalls calls in all
MaxCalls == 3

\* the row a helper saves when .exists() was false
SeedRow(op, user, group, pk) ==
    [pk |-> pk, user |-> user, group |-> group,
     post_count |-> IF op = "add_post_count" THEN 1 ELSE 0,
     comment_count |-> IF op = "add_comment_count" THEN 1 ELSE 0]

\* the adjustment with add_post_count counting the comment
Adjust_pasted(op, inst) ==
    CASE op = "add_post_count" -> [inst EXCEPT !.comment_count = @ + 1]
      [] op = "add_comment_count" -> [inst EXCEPT !.comment_count = @ + 1]
      [] op = "sub_post_count" ->
            IF inst.post_count > 0 THEN [inst EXCEPT !.post_count = @ - 1]
            ELSE [inst EXCEPT !.post_count = 0]
      [] op = "sub_comment_count" ->
            IF inst.comment_count > 0 THEN [inst EXCEPT !.comment_count = @ - 1]
            ELSE [inst EXCEPT !.comment_count = 0]

\* the adjustment a helper makes to the user_activity it fetched
Adjust(op, inst) ==
    CASE op = "add_post_count" -> [inst EXCEPT !.post_count = @ + 1]
      [] op = "add_comment_count" -> [inst EXCEPT !.comment_count = @ + 1]
      [] op = "sub_post_count" ->
            IF inst.post_count > 0 THEN [inst EXCEPT !.post_count = @ - 1]
            ELSE [inst EXCEPT !.post_count = 0]
      [] op = "sub_comment_count" ->
            IF inst.comment_count > 0 THEN [inst EXCEPT !.comment_count = @ - 1]
            ELSE [inst EXCEPT !.comment_count = 0]

\* user_activity.save() of a fetched row: every column of the row with its
\* primary key is written
SaveByPk(ua, inst) ==
    DeleteAll(ua, {r \in Rows(ua) : r.pk = inst.pk}) (+) One(inst)

\* the primary key the next INSERT gets (no row is ever deleted)
NextPk(ua) == Cardinality(Rows(ua)) + 1

\* the helper op as one call on table ua (the sequential helpers above)
Helper(op, ua, user, group) ==
    CASE op = "add_post_count" -> add_post_count(ua, user, group)
      [] op = "add_comment_count" -> add_comment_count(ua, user, group)
      [] op = "sub_post_count" -> sub_post_count(ua, user, group)
      [] op = "sub_comment_count" -> sub_comment_count(ua, user, group)

Running(q, user, group) ==
    calls[q].pc # "idle" /\ calls[q].user = user /\ calls[q].group = group

\* the calls the requests have made
CallsMade ==
    LET RECURSIVE Sum(_)
        Sum(P) == IF P = {} THEN 0
                  ELSE LET p == CHOOSE x \in P : TRUE
                       IN  calls[p].n + Sum(P \ {p})
    IN  Sum(Procs)

ConcFrame == UNCHANGED <<now, gates, monthPost, monthComment, lastUpdate,
                         lastSweep, last, gdt, tomb>>

\* the call of request p returns
Return(p) ==
    LET c == calls[p]
        k == <<c.user, c.group>>
    IN  /\ calls' = [calls EXCEPT ![p] = [Idle EXCEPT !.n = c.n]]
        /\ hist' = [hist EXCEPT
                      !.serial = CHOOSE t \in Helper(c.op, @, c.user, c.group) : TRUE,
                      !.adds[k] = IF c.op = "add_post_count" THEN @ + 1 ELSE @,
                      !.others[k] = IF c.op = "add_post_count" THEN @ ELSE @ + 1]

\* request p calls helper op for (user, group)
Begin(p, op, user, group) ==
    /\ calls[p].pc = "idle"
    /\ CallsMade < MaxCalls
    /\ calls' = [calls EXCEPT ![p] = [pc |-> "exists", op |-> op, user |-> user,
                                      group |-> group, inst |-> NoInst,
                                      n |-> calls[p].n + 1]]
    /\ hist' = [hist EXCEPT !.overlap[<<user, group>>] =
                    @ \/ \E q \in Procs \ {p} : Running(q, user, group)]
    /\ UNCHANGED activity
    /\ ConcFrame

\* UserActivity.objects.filter(user=user, group=group).exists()
Exists(p) ==
    /\ calls[p].pc = "exists"
    /\ calls' = [calls EXCEPT ![p].pc =
                    IF ActFilter(activity, calls[p].user, calls[p].group) = {}
                    THEN "insert" ELSE "fetch"]
    /\ UNCHANGED <<activity, hist>>
    /\ ConcFrame

\* user_activity = UserActivity(...); user_activity.save()
Insert(p) ==
    /\ calls[p].pc = "insert"
    /\ activity' = activity (+) One(SeedRow(calls[p].op, calls[p].user,
                                            calls[p].group, NextPk(activity)))
    /\ Return(p)
    /\ ConcFrame

\* user_activity = UserActivity.objects.filter(user=user, group=group)[0]
Fetch(p) ==
    /\ calls[p].pc = "fetch"
    /\ \E r \in ActFilter(activity, calls[p].user, calls[p].group) :
          calls' = [calls EXCEPT ![p].pc = "save", ![p].inst = r]
    /\ UNCHANGED <<activity, hist>>
    /\ ConcFrame

\* the adjustment of the fetched user_activity and user_activity.save()
SaveFetched(p) ==
    /\ calls[p].pc = "save"
    /\ activity' = SaveByPk(activity, Adjust(calls[p].op, calls[p].inst))
    /\ Return(p)
    /\ ConcFrame

NextConc ==
    \/ \E p \in Procs, op \in HelperOps, k \in ConcKeys : Begin(p, op, k[1], k[2])
    \/ \E p \in Procs : Exists(p)
    \/ \E p \in Procs : Insert(p)
    \/ \E p \in Procs : Fetch(p)
    \/ \E p \in Procs : SaveFetched(p)

SpecConc == Init /\ [][NextConc]_vars

(***************************************************************************)
(* get_different_time.                                                     *)
(***************************************************************************)
Digits == <<"0", "1", "2", "3", "4", "5", "6", "7", "8", "9">>

\* str(int(n))
RECURSIVE str(_)
str(n) ==
    IF n < 0 THEN "-" \o str(0 - n)
    ELSE IF n < 10 THEN Digits[n + 1]
    ELSE str(n \div 10) \o Digits[(n % 10) + 1]

\* divmod(a, b) of Python for b > 0: the floor quotient and the remainder
divmod(a, b) == <<a \div b, a % b>>

\* get_different_time with the test of the minutes slipped to > 1
get_different_time_slipped(time, t) ==
    LET diff == t - time
        s == diff
        hours == divmod(s, SecsPerHour)[1]
        remainder == divmod(s, SecsPerHour)[2]
        minutes == divmod(remainder, SecsPerMin)[1]
        seconds == divmod(remainder, SecsPerMin)[2]
    IN  IF days(diff) > 0 THEN str(days(diff)) \o "days"
        ELSE IF hours > 0 THEN str(hours) \o "hours"
        ELSE IF minutes > 1 THEN str(minutes) \o "mins"
        ELSE str(seconds) \o "secs"

\* get_different_time(time) called at time t
get_different_time(time, t) ==
    LET diff == t - time
        s == diff
        hours == divmod(s, SecsPerHour)[1]
        remainder == divmod(s, SecsPerHour)[2]
        minutes == divmod(remainder, SecsPerMin)[1]
        seconds == divmod(remainder, SecsPerMin)[2]
    IN  IF days(diff) > 0 THEN str(days(diff)) \o "days"
        ELSE IF hours > 0 THEN str(hours) \o "hours"
        ELSE IF minutes > 0 THEN str(minutes) \o "mins"
        ELSE str(seconds) \o "secs"

\* the durations now - time the formatter is called with: every duration up
\* to MaxSecs seconds either way, and those within a second of a whole
\* number of hours or days up to MaxUnits either way
MaxSecs == 125
MaxUnits == 25

Durations ==
    (0 - MaxSecs .. MaxSecs)
    \cup {h * SecsPerHour + j : h \in (0 - MaxUnits .. MaxUnits), j \in {0 - 1, 0, 1}}
    \cup {k * Day + j : k \in (0 - MaxUnits .. MaxUnits), j \in {0 - 1, 0, 1}}

GetDifferentTime(time) ==
    /\ gdt' = [time |-> time, now |-> now, result |-> get_different_time(time, now)]
    /\ last' = [NoCall EXCEPT !.op = "get_different_time"]
    /\ UNCHANGED <<now, gates, monthPost, monthComment, lastUpdate, lastSweep,
                   activity, tomb, calls, hist>>

NextGdt ==
    \/ Tick
    \/ \E d \in Durations : GetDifferentTime(now - d)

SpecGdt == Init /\ [][NextGdt]_vars

(***************************************************************************)
(* DeletedPost.create and DeletedComment.create.                           *)
(***************************************************************************)
\* the posts and comments a tombstone is made of; the parent of a comment is
\* a set, empty (null) or holding the parent comment
TombPosts ==
    [id : {"p1", "p2"}, user : {"u1", "u2"}, created_time : {0, Day},
     updated_time : {Day, 2 * Day}, message : {None, "hello"},
     picture : {None, "pic.jpg"}, comment_count : {0, 2}, like_count : {0, 1},
     share_count : {0, 3}, group : Groups]

CommentPosts == {p \in TombPosts : /\ p.user = "u1" /\ p.created_time = 0
                                   /\ p.updated_time = Day /\ p.message = None
                                   /\ p.picture = None /\ p.comment_count = 2
                                   /\ p.like_count = 1 /\ p.share_count = 0
                                   /\ p.group = "g1"}

ParentComments ==
    [id : {"c8", "c9"}, user : {"u2"}, created_time : {0}, message : {"parent"},
     like_count : {0}, comment_count : {2}, post : CommentPosts, parent : {{}},
     group : {"g1"}]

TombComments ==
    [id : {"c1", "c2"}, user : {"u1", "u2"}, created_time : {0, Day},
     message : {None, "hello"}, like_count : {0, 1}, comment_count : {0, 2},
     post : CommentPosts, parent : {{}} \cup {{c} : c \in ParentComments},
     group : Groups]

DeletedPost_create(post) ==
    [id |-> post.id, user |-> post.user, created_time |-> post.created_time,
     updated_time |-> post.updated_time, message |-> post.message,
     picture |-> post.picture, comment_count |-> post.comment_count,
     like_count |-> post.like_count, share_count |-> post.share_count,
     group |-> post.group]

\* DeletedComment.create without its parent argument: the field stays null
DeletedComment_create_orphan(comment) ==
    [id |-> comment.id, user |-> comment.user,
     created_time |-> comment.created_time, message |-> comment.message,
     like_count |-> comment.like_count, comment_count |-> comment.comment_count,
     post |-> comment.post.id, parent |-> None, group |-> comment.group]

DeletedComment_create(comment) ==
    LET parent == IF comment.parent # {}
                  THEN (CHOOSE c \in comment.parent : TRUE).id
                  ELSE None
    IN  [id |-> comment.id, user |-> comment.user,
         created_time |-> comment.created_time, message |-> comment.message,
         like_count |-> comment.like_count, comment_count |-> comment.comment_count,
         post |-> comment.post.id, parent |-> parent, group |-> comment.group]

TombFrame == UNCHANGED <<now, gates, monthPost, monthComment, lastUpdate,
                         lastSweep, activity, gdt, calls, hist>>

DeletedPostCreate(post) ==
    /\ tomb' = [of |-> "post", from |-> post, made |-> DeletedPost_create(post)]
    /\ last' = [NoCall EXCEPT !.op = "DeletedPost.create", !.arg = post.id]
    /\ TombFrame

DeletedCommentCreate(comment) ==
    /\ tomb' = [of |-> "comment", from |-> comment,
                made |-> DeletedComment_create(comment)]
    /\ last' = [NoCall EXCEPT !.op = "DeletedComment.create", !.arg = comment.id]
    /\ TombFrame

NextTomb ==
    \/ \E post \in TombPosts : DeletedPostCreate(post)
    \/ \E comment \in TombComments : DeletedCommentCreate(comment)

SpecTomb == Init /\ [][NextTomb]_vars

(***************************************************************************)
(* Properties of the retention sweep and of the refresh gate.              *)
(***************************************************************************)
GateRows(g) == GateFilter(gates, g, MonthMethod)
Cutoff == now - RetentionDays * Day
PostRowsOf(table, id) == {r \in Rows(table) : r.post = id}
CommentRowsOf(table, id) == {r \in Rows(table) : r.comment = id}

\* what a sweep of group g at cutoff date makes of table old: new
SweptExactly(old, new, g, date) ==
    /\ Rows(new) \subseteq Rows(old)
    /\ \A r \in Rows(old) :
          CopiesIn(r, new) = IF r.group = g /\ r.created_time < date
                             THEN 0 ELSE CopiesIn(r, old)

\* C1: a call of check(group) made while the gate row of (group,
\* 'month_content') exists and is at least one full day old removes from
\* MonthPost and MonthComment exactly the rows of that group whose
\* created_time is earlier than now minus 30 days; every other row stays.
C1_DueSweepDeletesExactlyOld ==
    [][ \A g \in Groups :
          ( /\ last'.op = "check" /\ last'.group = g
            /\ GateRows(g) # {}
            /\ \A r \in GateRows(g) : now - r.updated_time >= Day )
          => /\ SweptExactly(monthPost, monthPost', g, Cutoff)
             /\ SweptExactly(monthComment, monthComment', g, Cutoff) ]_vars

\* a due check of g1 has removed rows while a row of g1 younger than the
\* cutoff and a row of g2 older than the cutoff are still there
C1_Witness ==
    /\ last.op = "check" /\ last.group = "g1" /\ last.due /\ last.deleted > 0
    /\ \E r \in Rows(monthPost) : r.group = "g1" /\ r.created_time >= Cutoff
    /\ \E r \in Rows(monthPost) : r.group = "g2" /\ r.created_time < Cutoff

\* C2: a call of check(group) made while the gate is not due deletes no
\* MonthPost or MonthComment row: with a gate row less than one day old it
\* changes nothing, the gate included; with no gate row it only creates the
\* gate row with timestamp now.
C2_NotDueDeletesNothing ==
    [][ \A g \in Groups :
          (last'.op = "check" /\ last'.group = g)
          => /\ ( GateRows(g) # {} /\ \A r \in GateRows(g) : now - r.updated_time < Day )
                => ( /\ gates' = gates
                     /\ monthPost' = monthPost
                     /\ monthComment' = monthComment )
             /\ GateRows(g) = {}
                => ( /\ gates' = gates (+) One([group |-> g, method |-> MonthMethod,
                                                updated_time |-> now])
                     /\ monthPost' = monthPost
                     /\ monthComment' = monthComment ) ]_vars

\* a check that was not due and touched nothing has left in place a row of
\* its group older than the cutoff
C2_Witness ==
    /\ last.op = "check" /\ ~last.due /\ ~last.touched
    /\ \E r \in Rows(monthPost) : r.group = last.group /\ r.created_time < Cutoff

\* C3: two runs of the deletion branch of check for the same group, whether
\* check was called alone or by a create, are at least one full day apart.
C3_SweepAtMostDaily ==
    last.due => \A t \in last.prevSweep : now - t >= Day

\* a group has been swept a second time
C3_Witness ==
    last.due /\ last.prevSweep # {}

\* C4: no post and no comment ever has more than one shadow row, and when
\* MonthPost.create(post) or MonthComment.create(comment) returns there is
\* exactly one shadow row of that post or comment.
C4_CreateIdempotent ==
    /\ \A p \in MonthPosts : Copies(monthPost, PostRowsOf(monthPost, p.id)) <= 1
    /\ \A c \in MonthComments :
          Copies(monthComment, CommentRowsOf(monthComment, c.id)) <= 1
    /\ last.op = "MonthPost.create"
          => Copies(monthPost, PostRowsOf(monthPost, last.arg)) = 1
    /\ last.op = "MonthComment.create"
          => Copies(monthComment, CommentRowsOf(monthComment, last.arg)) = 1

\* create was called for a post that already had its shadow row
C4_Witness ==
    last.op = "MonthPost.create" /\ last.pre = 1

\* C7: after update(group, method), whether it created the row or touched
\* it, is_update() of that row is false while less than one day has passed
\* since the call and true once more than 24 hours have passed.
C7_GateCooldown ==
    \A k \in Groups \X Methods :
        \A called \in lastUpdate[k] :
           LET rows == GateFilter(gates, k[1], k[2])
               elapsed == now - called
           IN  /\ rows # {}
               /\ \A r \in rows :
                     /\ elapsed < Day => ~is_update(r, now)
                     /\ elapsed > Day => is_update(r, now)

\* update has touched an existing row, and another gate is past its day
C7_Witness ==
    /\ last.op = "update" /\ last.pre = 1
    /\ \E k \in Groups \X Methods :
          \E called \in lastUpdate[k] : now - called > Day

(***************************************************************************)
(* Properties of the UserActivity counters.                                *)
(***************************************************************************)
\* C5: in every state reached from the empty store by add_post_count,
\* add_comment_count, sub_post_count and sub_comment_count calls, every
\* UserActivity row has post_count >= 0 and comment_count >= 0.
C5_CountersNonNegative ==
    \A r \in Rows(activity) : r.post_count >= 0 /\ r.comment_count >= 0

\* sub_post_count has been called on a row whose post_count was 0
C5_Witness ==
    /\ last.op = "sub_post_count" /\ last.pre = 0
    /\ \E r \in ActFilter(activity, last.arg, last.group) :
          r.post_count = 0 /\ r.comment_count > 0

\* C6: add_post_count directly followed by sub_post_count for the same
\* (user, group) leaves post_count as it was before the two calls, a missing
\* row counting as 0; likewise add_comment_count, sub_comment_count and
\* comment_count.
C6_AddThenSubRestores ==
    last.afterAdd =>
        /\ last.op = "sub_post_count"
              => PostCountOf(activity, last.arg, last.group) = last.pre0
        /\ last.op = "sub_comment_count"
              => CommentCountOf(activity, last.arg, last.group) = last.pre0

\* a sub_comment_count has followed the add_comment_count of a counter that
\* was above 0
C6_Witness ==
    last.afterAdd /\ last.op = "sub_comment_count" /\ last.pre0 > 0

(***************************************************************************)
(* Properties of get_different_time.                                       *)
(***************************************************************************)
\* C8: get_different_time(time) is "0secs" whenever now - time is zero or
\* negative.
C8_NonPositiveIsZeroSecs ==
    (gdt.result # None /\ gdt.now - gdt.time <= 0) => gdt.result = "0secs"

\* the unit and value the coarsest applicable unit gives a duration d >= 0
Coarsest(d) ==
    IF d >= Day THEN str(d \div Day) \o "days"
    ELSE IF d >= SecsPerHour THEN str(d \div SecsPerHour) \o "hours"
    ELSE IF d >= SecsPerMin THEN str(d \div SecsPerMin) \o "mins"
    ELSE str(d) \o "secs"

\* C9: for a duration d >= 0 of whole seconds, get_different_time(now - d)
\* is the number of whole days with "days" if d >= 1 day, else of whole
\* hours with "hours" if d >= 1 hour, else of whole minutes with "mins" if
\* d >= 1 minute, else the seconds with "secs".
C9_CoarsestUnit ==
    (gdt.result # None /\ gdt.now - gdt.time >= 0)
        => gdt.result = Coarsest(gdt.now - gdt.time)

\* the formatter has answered in hours
C9_Witness ==
    gdt.now - gdt.time = 23 * SecsPerHour + 1 /\ gdt.result = "23hours"

(***************************************************************************)
(* Properties of the tombstone factories.                                  *)
(***************************************************************************)
PostFields == {"id", "user", "created_time", "updated_time", "message", "picture",
               "comment_count", "like_count", "share_count", "group"}
CommentFields == {"id", "user", "created_time", "message", "like_count",
                  "comment_count", "group"}

\* C10: the tombstone of a post has the post's id, user, created_time,
\* updated_time, message, picture, comment_count, like_count, share_count
\* and group; the tombstone of a comment has the comment's id, user,
\* created_time, message, like_count, comment_count and group, the id of
\* the comment's post as post, and as parent the id of the comment's parent
\* or null when it has none.
C10_TombstoneCopies ==
    /\ tomb.of = "post"
          => \A f \in PostFields : tomb.made[f] = tomb.from[f]
    /\ tomb.of = "comment"
          => /\ \A f \in CommentFields : tomb.made[f] = tomb.from[f]
             /\ tomb.made.post = tomb.from.post.id
             /\ tomb.from.parent = {} => tomb.made.parent = None
             /\ \A c \in tomb.from.parent : tomb.made.parent = c.id

\* the tombstone of a comment that has a parent, of another group than its
\* post's, with like_count and comment_count apart
C10_Witness ==
    /\ tomb.of = "comment"
    /\ tomb.from.parent # {} /\ tomb.made.parent = "c8"
    /\ tomb.from.like_count = 1 /\ tomb.from.comment_count = 2

(***************************************************************************)
(* Properties of the UserActivity helpers run at the same time.            *)
(***************************************************************************)
Quiet(k) == \A p \in Procs : ~Running(p, k[1], k[2])

\* C11: two calls of a counter helper for the same (user, group) whose read
\* and write steps interleave can lose an update: a state is reached
\* (C11_Witness) where no call is running and the one row of a key that
\* only add_post_count was called for has a post_count below the number of
\* completed calls.  Around it, in every state: once the calls of a key
\* have returned, if none of them overlapped another the key has one row
\* with the counters the calls give one after the other, and a key that
\* only add_post_count was called for never counts more than its calls.
C11_LostOnlyWhenInterleaved ==
    \A k \in ConcKeys :
        Quiet(k) =>
            /\ ~hist.overlap[k] =>
                  /\ Copies(activity, ActFilter(activity, k[1], k[2])) <= 1
                  /\ PostCountOf(activity, k[1], k[2])
                        = PostCountOf(hist.serial, k[1], k[2])
                  /\ CommentCountOf(activity, k[1], k[2])
                        = CommentCountOf(hist.serial, k[1], k[2])
            /\ hist.others[k] = 0 =>
                  \A r \in ActFilter(activity, k[1], k[2]) :
                      r.post_count <= hist.adds[k]

\* every call has returned, and a key that only add_post_count was called
\* for has one row, with fewer counted than calls completed
C11_Witness ==
    /\ \A p \in Procs : calls[p].pc = "idle"
    /\ \E k \in ConcKeys :
          /\ hist.others[k] = 0
          /\ Copies(activity, ActFilter(activity, k[1], k[2])) = 1
          /\ \A r \in ActFilter(activity, k[1], k[2]) : r.post_count < hist.adds[k]

(***************************************************************************)
(* Properties of the upsert helpers called one after the other.            *)
(***************************************************************************)
ActUsers == {k[1] : k \in ActKeys \cup UpsertKeys}

\* C12: in every state reached from the empty store by add_post_count,
\* add_comment_count, sub_post_count, sub_comment_count, update and check
\* calls made one after the other, there is at most one UserActivity row
\* for each (user, group) and at most one GroupStatisticsUpdateList row for
\* each (group, method).
C12_OneRowPerKey ==
    /\ \A u \in ActUsers, g \in Groups :
          Copies(activity, ActFilter(activity, u, g)) <= 1
    /\ \A g \in Groups, m \in Methods :
          Copies(gates, GateFilter(gates, g, m)) <= 1

\* update has been called for a gate that had its row, a check has found
\* its gate due and touched it, and a helper has counted on an existing row
C12_Witness ==
    /\ last.op = "update" /\ last.pre = 1
    /\ lastSweep["g2"] # {}
    /\ \E r \in Rows(activity) : r.post_count >= 2 /\ r.comment_count >= 1

====
